---- MODULE Spec2Model ----
(***************************************************************************)
(* Model of src/index.js, the Athena data-source connector: the query      *)
(* runner returned by getRunner (submit, poll, paginate, map, reify        *)
(* dates), run by several outstanding invocations against one service.     *)
(*                                                                         *)
(* One action is one remote call (or timer) of one invocation together     *)
(* with the code that runs after it up to the next await.                  *)
(***************************************************************************)
EXTENDS Integers, Sequences, FiniteSets, TLC

\* ------------------------------------------------------------- bounds
MaxPages == 2       \* pages of one result set
MaxPending == 2     \* QUEUED/RUNNING answers the service gives per execution
NumInv == 2         \* invocations the host may have outstanding

\* ---------------------------------------------------------- constants
PollDelay == 5000   \* setTimeout(resolve, 5000)
NoToken == 0        \* let nextToken = null / response.NextToken absent
NoId == 0           \* queryExecutionId not yet returned

Invocations == 1..NumInv
ExecIds == 1..NumInv

\* EvidenceType and TypeFidelity of @evidence-dev/db-commons
EvBOOLEAN == "boolean"
EvNUMBER == "number"
EvSTRING == "string"
EvDATE == "date"
PRECISE == "precise"

PendingStatuses == {"QUEUED", "RUNNING"}
FailedStatuses == {"FAILED", "CANCELLED"}
Statuses == PendingStatuses \cup FailedStatuses \cup {"SUCCEEDED"}

\* ------------------------------------------------------- type mapper
\* the native tags the switch names, and some it does not
ListedTags == {"boolean", "tinyint", "smallint", "int", "integer", "bigint",
               "double", "float", "real", "date", "timestamp", "string",
               "char", "varchar", "array", "map", "struct", "decimal", "binary"}
OtherTags == {"Boolean", "DATE", "Timestamp", "INT", "varbinary", "json",
              "time", "row", "", "undefined"}
AllTags == ListedTags \cup OtherTags
ColumnNames == {"a", "b"}

\* a table that takes decimal for a number
EvidenceTypeDecimalNumber(tag) ==
    CASE tag = "boolean" -> EvBOOLEAN
      [] tag \in {"tinyint", "smallint", "int", "integer", "bigint",
                  "double", "float", "real", "decimal"} -> EvNUMBER
      [] tag \in {"date", "timestamp"} -> EvDATE
      [] OTHER -> EvSTRING

\* switch (column.Type)
EvidenceTypeOf(tag) ==
    CASE tag = "boolean" -> EvBOOLEAN
      [] tag \in {"tinyint", "smallint", "int", "integer", "bigint",
                  "double", "float", "real"} -> EvNUMBER
      [] tag \in {"date", "timestamp"} -> EvDATE
      [] tag \in {"string", "char", "varchar"} -> EvSTRING
      [] tag = "array" -> EvSTRING
      [] tag = "map" -> EvSTRING
      [] tag = "struct" -> EvSTRING
      [] tag = "decimal" -> EvSTRING
      [] tag = "binary" -> EvSTRING
      [] OTHER -> EvSTRING

mapAthenaTypeToEvidenceType(column) ==
    [name |-> column.Name,
     evidenceType |-> EvidenceTypeOf(column.Type),
     typeFidelity |-> PRECISE]

\* ------------------------------------------------- result formatting
\* obj[key] = value on a JS object (a function from its keys)
Put(obj, key, value) ==
    [k \in (DOMAIN obj) \cup {key} |-> IF k = key THEN value ELSE obj[k]]

EmptyObject == [k \in {} |-> ""]

\* row.Data.forEach((data, index) => mappedRow[columns[index].Name] = data.VarCharValue)
\* the writes, in order
RowWrites(columns, row) ==
    [index \in 1..Len(row) |->
        [key |-> columns[index].Name, value |-> row[index]]]

RECURSIVE ApplyWrites(_, _, _)
ApplyWrites(obj, writes, k) ==
    IF k > Len(writes) THEN obj
    ELSE ApplyWrites(Put(obj, writes[k].key, writes[k].value), writes, k + 1)

MapRow(columns, row) == ApplyWrites(EmptyObject, RowWrites(columns, row), 1)

\* a formatter that keeps the header row
AllRowsKept(rows) == rows

\* queryResults.rows.slice(1)
DataRows(rows) == SubSeq(rows, 2, Len(rows))

mapQueryResults(queryResults) ==
    LET columns == queryResults.resultSetMetadata
        rows == DataRows(queryResults.rows)
        mappedRows == [k \in 1..Len(rows) |-> MapRow(columns, rows[k])]
        columnTypes == [c \in 1..Len(columns) |->
                            mapAthenaTypeToEvidenceType(columns[c])]
    IN [kind |-> "output",
        rows |-> mappedRows,
        columnTypes |-> columnTypes,
        expectedRowCount |-> Len(mappedRows)]

\* new Date(v): the strings the model's cells hold, and date values themselves
DateValues == {"Date(2024-01-15T00:00:00.000Z)", "Invalid Date"}
NewDate(v) ==
    CASE v = "2024-01-15" -> "Date(2024-01-15T00:00:00.000Z)"
      [] v \in DateValues -> v
      [] OTHER -> "Invalid Date"

\* column.evidenceType === 'date'
IsDateColumn(column) == column.evidenceType = "date"

\* for (const column of output.columnTypes) if (date) row[name] = new Date(row[name])
RECURSIVE ReifyRow(_, _, _)
ReifyRow(row, columnTypes, c) ==
    IF c > Len(columnTypes) THEN row
    ELSE ReifyRow(IF IsDateColumn(columnTypes[c])
                  THEN Put(row, columnTypes[c].name, NewDate(row[columnTypes[c].name]))
                  ELSE row,
                  columnTypes, c + 1)

ReifyDates(output) ==
    [output EXCEPT !.rows =
        [k \in 1..Len(output.rows) |-> ReifyRow(output.rows[k], output.columnTypes, 1)]]

\* ------------------------------------------------------ service data
Columns == [Name : ColumnNames, Type : {"date", "varchar"}]
ColumnLists == {<<x, y>> : x \in Columns, y \in Columns}
RowA == <<"2024-01-15", "x">>
RowB == <<"x", "2024-01-15">>
\* the data rows one page may carry
RowChoices == {<<>>, <<RowA>>, <<RowB, RowA>>}

\* the header row Athena puts first on the first page
Header(meta) == <<meta[1].Name, meta[2].Name>>
Swap(meta) == <<meta[2], meta[1]>>

Page(rows, meta) == [Rows |-> rows, Meta |-> meta]
FirstPages == {Page(<<Header(m)>> \o d, m) : m \in ColumnLists, d \in RowChoices}
LaterPages(first) == {Page(d, m) : m \in {first.Meta, Swap(first.Meta)}, d \in RowChoices}

RECURSIVE Longer(_, _)
\* the page sequences of up to n pages that start with a sequence of `seqs`
Longer(seqs, n) ==
    IF n <= 1 THEN seqs
    ELSE seqs \cup Longer(UNION {{Append(s, p) : p \in LaterPages(s[1])} : s \in seqs},
                          n - 1)

ResultSets == Longer({<<p>> : p \in FirstPages}, MaxPages)

\* the result sets of the concurrent runs: one page, and two pages whose second
\* page carries other metadata
MetaAB == <<[Name |-> "a", Type |-> "date"], [Name |-> "b", Type |-> "varchar"]>>
MetaBA == <<[Name |-> "b", Type |-> "varchar"], [Name |-> "a", Type |-> "date"]>>
OnePage == <<Page(<<Header(MetaAB), RowA>>, MetaAB)>>
TwoPages == <<Page(<<Header(MetaBA), RowB>>, MetaBA), Page(<<RowA>>, Swap(MetaBA))>>
\* executions next to each other never have the same result set
Alternating(odd, even) == [e \in ExecIds |-> IF e % 2 = 1 THEN odd ELSE even]

\* ------------------------------------------------------------- state
VARIABLES
    results,            \* service: execution id -> its pages
    started,            \* service: executions started so far (the last id given out)
    pendingLeft,        \* service: execution id -> QUEUED/RUNNING answers still to give
    pc,                 \* invocation -> where its runner is suspended
    queryExecutionId,   \* invocation -> response.QueryExecutionId
    nextToken,          \* invocation -> getQueryResults' nextToken
    paramsToken,        \* invocation -> getQueryResults' params.NextToken
    allRows,            \* invocation -> getQueryResults' allRows
    resultSetMetadata,  \* invocation -> getQueryResults' resultSetMetadata
    mapped,             \* invocation -> what mapQueryResults returned
    outcome,            \* invocation -> how the runner's promise settled
    trace,              \* invocation -> its remote calls and timers, in order
    console,            \* what console.error was given, in order
    tmColumn,           \* the column handed to mapAthenaTypeToEvidenceType
    tmResult            \* what it returned

vars == <<results, started, pendingLeft, pc, queryExecutionId, nextToken,
          paramsToken, allRows, resultSetMetadata, mapped, outcome, trace,
          console, tmColumn, tmResult>>
service == <<results, started, pendingLeft>>
paginator == <<nextToken, paramsToken, allRows, resultSetMetadata>>
mapperVars == <<tmColumn, tmResult>>

NoMetadata == <<>>
Undefined == [kind |-> "undefined"]
Unsettled == [state |-> "pending", value |-> Undefined]
NotMapped == [kind |-> "none"]

TransportError(op) == [kind |-> "TransportError", op |-> op, id |-> NoId]
\* new Error(`Query execution failed or was cancelled: ${queryExecutionId}`)
ExecutionFailed(id) == [kind |-> "ExecutionFailed", op |-> "GetQueryExecution", id |-> id]

Event(op, id, token, resp, next, ms) ==
    [op |-> op, id |-> id, token |-> token, resp |-> resp, next |-> next, ms |-> ms]

\* a token is followed when it is truthy
Truthy(token) == token /= NoToken

\* the service's answer to GetQueryResults(id, token)
PageIndex(token) == IF Truthy(token) THEN token ELSE 1
ServedPage(id, token) == results[id][PageIndex(token)]
ServedToken(id, token) ==
    IF PageIndex(token) < Len(results[id]) THEN PageIndex(token) + 1 ELSE NoToken

\* the state before the host's first call: `calls` invocations will be made, and
\* the service answers QUEUED/RUNNING at most `patience` times per execution
InitRunner(calls, patience) ==
    /\ started = 0
    /\ pendingLeft = [e \in ExecIds |-> patience]
    /\ pc = [i \in Invocations |-> IF i <= calls THEN "idle" ELSE "unused"]
    /\ queryExecutionId = [i \in Invocations |-> NoId]
    /\ nextToken = [i \in Invocations |-> NoToken]
    /\ paramsToken = [i \in Invocations |-> NoToken]
    /\ allRows = [i \in Invocations |-> <<>>]
    /\ resultSetMetadata = [i \in Invocations |-> NoMetadata]
    /\ mapped = [i \in Invocations |-> NotMapped]
    /\ outcome = [i \in Invocations |-> Unsettled]
    /\ trace = [i \in Invocations |-> <<>>]
    /\ console = <<>>

\* the mapper before its first call, with the column it will be given
InitMapper(columns) ==
    /\ tmColumn \in columns
    /\ tmResult = NotMapped

\* one invocation, every result set
Init ==
    /\ InitRunner(1, MaxPending)
    /\ InitMapper({MetaAB[2]})
    /\ \E r \in ResultSets : results = [e \in ExecIds |-> r]

\* every invocation outstanding at once, each execution with a result set of its own
InitConc ==
    /\ InitRunner(NumInv, 1)
    /\ InitMapper({MetaAB[2]})
    /\ results \in {Alternating(OnePage, TwoPages), Alternating(TwoPages, OnePage)}

\* ----------------------------------------------------------- runner
\* a catch that rethrows: the runner's promise is rejected with the error
RethrowOutcome(error) == [state |-> "rejected", value |-> error]

\* catch (error) { console.error(...) }: the async function then returns undefined
CatchOutcome(error) == [state |-> "fulfilled", value |-> Undefined]

Caught(i, error) ==
    /\ console' = Append(console, error)
    /\ outcome' = [outcome EXCEPT ![i] = CatchOutcome(error)]
    /\ pc' = [pc EXCEPT ![i] = "done"]

\* an execution id kept in one place for all invocations: the last one started
SharedRequestId(i) == started

\* the execution id the poller and the paginator put in their requests
RequestId(i) == queryExecutionId[i]

\* a poller that does not know CANCELLED and keeps polling on it
WaitStepNoCancel(status) ==
    IF status = "SUCCEEDED" THEN "break"
    ELSE IF status = "FAILED" THEN "throw"
    ELSE "sleep"

\* a poller that takes RUNNING for completion
WaitStepRunningEnds(status) ==
    IF status = "SUCCEEDED" \/ status = "RUNNING" THEN "break"
    ELSE IF status = "FAILED" \/ status = "CANCELLED" THEN "throw"
    ELSE "sleep"

\* a poller that leaves the loop on any terminal status without raising
WaitStepNoThrow(status) ==
    IF status = "SUCCEEDED" \/ status = "FAILED" \/ status = "CANCELLED" THEN "break"
    ELSE "sleep"

\* waitForQueryCompletion's decision on one status
WaitStep(status) ==
    IF status = "SUCCEEDED" THEN "break"
    ELSE IF status = "FAILED" \/ status = "CANCELLED" THEN "throw"
    ELSE "sleep"

\* if (nextToken) params.NextToken = nextToken
RequestToken(params, token) == IF Truthy(token) THEN token ELSE params

\* metadata taken anew from every page
LatestMetadata(current, pageMeta) == pageMeta

\* if (!resultSetMetadata) resultSetMetadata = response.ResultSet.ResultSetMetadata
CapturedMetadata(current, pageMeta) ==
    IF current = NoMetadata THEN pageMeta ELSE current

\* a loop that stops after its first page
StopAfterFirst(token) == FALSE

\* while (nextToken)
ContinueLoop(token) == Truthy(token)

\* client.send(new StartQueryExecutionCommand(params)) and what follows it
StartQueryExecution(i) ==
    /\ pc[i] = "idle"
    /\ \/ /\ started' = started + 1
          /\ queryExecutionId' = [queryExecutionId EXCEPT ![i] = started + 1]
          /\ trace' = [trace EXCEPT ![i] =
                Append(@, Event("StartQueryExecution", NoId, NoToken, "ok", NoToken, 0))]
          /\ pc' = [pc EXCEPT ![i] = "poll"]
          /\ UNCHANGED <<outcome, console>>
       \/ /\ trace' = [trace EXCEPT ![i] =
                Append(@, Event("StartQueryExecution", NoId, NoToken, "error", NoToken, 0))]
          /\ Caught(i, TransportError("StartQueryExecution"))
          /\ UNCHANGED <<started, queryExecutionId>>
    /\ UNCHANGED <<results, pendingLeft, paginator, mapped, mapperVars>>

\* one turn of waitForQueryCompletion's loop: the status check and its branch
GetQueryExecution(i) ==
    /\ pc[i] = "poll"
    /\ \/ \E status \in Statuses :
            /\ status \in PendingStatuses => pendingLeft[RequestId(i)] > 0
            /\ pendingLeft' = IF status \in PendingStatuses
                              THEN [pendingLeft EXCEPT ![RequestId(i)] = @ - 1]
                              ELSE pendingLeft
            /\ trace' = [trace EXCEPT ![i] =
                  Append(@, Event("GetQueryExecution", RequestId(i), NoToken, status, NoToken, 0))]
            /\ CASE WaitStep(status) = "break" ->
                      /\ pc' = [pc EXCEPT ![i] = "fetch"]
                      /\ UNCHANGED <<outcome, console>>
                 [] WaitStep(status) = "throw" ->
                      Caught(i, ExecutionFailed(queryExecutionId[i]))
                 [] OTHER ->
                      /\ pc' = [pc EXCEPT ![i] = "sleep"]
                      /\ UNCHANGED <<outcome, console>>
       \/ /\ trace' = [trace EXCEPT ![i] =
                Append(@, Event("GetQueryExecution", RequestId(i), NoToken, "error", NoToken, 0))]
          /\ Caught(i, TransportError("GetQueryExecution"))
          /\ UNCHANGED pendingLeft
    /\ UNCHANGED <<results, started, queryExecutionId, paginator, mapped, mapperVars>>

\* await new Promise(resolve => setTimeout(resolve, 5000))
Sleep(i) ==
    /\ pc[i] = "sleep"
    /\ trace' = [trace EXCEPT ![i] =
          Append(@, Event("wait", NoId, NoToken, "timeout", NoToken, PollDelay))]
    /\ pc' = [pc EXCEPT ![i] = "poll"]
    /\ UNCHANGED <<service, queryExecutionId, paginator, mapped, outcome, console, mapperVars>>

\* one turn of getQueryResults' loop and, after the last page, the runner's
\* mapQueryResults, date loop and return
GetQueryResults(i) ==
    /\ pc[i] = "fetch"
    /\ LET token == RequestToken(paramsToken[i], nextToken[i])
           id == RequestId(i)
       IN \/ LET page == ServedPage(id, token)
                 next == ServedToken(id, token)
                 meta == CapturedMetadata(resultSetMetadata[i], page.Meta)
                 rows == allRows[i] \o page.Rows
                 output == mapQueryResults([rows |-> rows, resultSetMetadata |-> meta])
             IN /\ paramsToken' = [paramsToken EXCEPT ![i] = token]
                /\ trace' = [trace EXCEPT ![i] =
                      Append(@, Event("GetQueryResults", id, token, "ok", next, 0))]
                /\ resultSetMetadata' = [resultSetMetadata EXCEPT ![i] = meta]
                /\ allRows' = [allRows EXCEPT ![i] = rows]
                /\ nextToken' = [nextToken EXCEPT ![i] = next]
                /\ IF ContinueLoop(next)
                   THEN UNCHANGED <<pc, mapped, outcome>>
                   ELSE /\ mapped' = [mapped EXCEPT ![i] = output]
                        /\ outcome' = [outcome EXCEPT ![i] =
                              [state |-> "fulfilled", value |-> ReifyDates(output)]]
                        /\ pc' = [pc EXCEPT ![i] = "done"]
                /\ UNCHANGED console
          \/ /\ paramsToken' = [paramsToken EXCEPT ![i] = token]
             /\ trace' = [trace EXCEPT ![i] =
                   Append(@, Event("GetQueryResults", id, token, "error", NoToken, 0))]
             /\ Caught(i, TransportError("GetQueryResults"))
             /\ UNCHANGED <<nextToken, allRows, resultSetMetadata, mapped>>
    /\ UNCHANGED <<service, queryExecutionId, mapperVars>>

Next ==
    \E i \in Invocations :
        \/ StartQueryExecution(i)
        \/ GetQueryExecution(i)
        \/ Sleep(i)
        \/ GetQueryResults(i)

Spec == Init /\ [][Next]_vars
SpecConc == InitConc /\ [][Next]_vars

\* ------------------------------------------- the type mapper, alone
\* no invocation is made; a column of any name and native tag goes to the mapper
InitTypes ==
    /\ InitRunner(0, 0)
    /\ results = [e \in ExecIds |-> <<Page(<<Header(MetaAB)>>, MetaAB)>>]
    /\ InitMapper([Name : ColumnNames, Type : AllTags])

MapColumn ==
    /\ tmResult = NotMapped
    /\ tmResult' = mapAthenaTypeToEvidenceType(tmColumn)
    /\ UNCHANGED <<service, pc, queryExecutionId, paginator, mapped, outcome, trace,
                   console, tmColumn>>

NextTypes == MapColumn
SpecTypes == InitTypes /\ [][NextTypes]_vars

\* ------------------------------------------------------------ claims
IsStart(e) == e.op = "StartQueryExecution"
IsStatusCheck(e) == e.op = "GetQueryExecution"
IsFetch(e) == e.op = "GetQueryResults"
IsWait(e) == e.op = "wait"
Last(s) == s[Len(s)]

\* the statuses the poller of invocation i has been answered
Observed(i) == {trace[i][k].resp : k \in {j \in DOMAIN trace[i] : IsStatusCheck(trace[i][j])}}
SawFailure(i) == Observed(i) \cap FailedStatuses /= {}
SawTerminal(i) == Observed(i) \cap (FailedStatuses \cup {"SUCCEEDED"}) /= {}
CallFailed(i) == \E k \in DOMAIN trace[i] : trace[i][k].resp = "error"
Logged(error) == \E k \in DOMAIN console : console[k] = error
HasOutput(i) == outcome[i].state = "fulfilled" /\ outcome[i].value.kind = "output"

\* C1 as stated: once the poller has observed FAILED or CANCELLED, the runner's
\* invocation ends in a rejection carrying the execution-failure error.
C1_FailurePropagates ==
    \A i \in Invocations :
        SawFailure(i) =>
            /\ outcome[i].state = "rejected"
            /\ outcome[i].value = ExecutionFailed(queryExecutionId[i])

\* C1 amended: once the poller has observed FAILED or CANCELLED, the error raised
\* carries the invocation's execution identifier and reaches the runner's catch,
\* which logs it; the invocation ends in a normal return of undefined.
C1_FailureCaught ==
    \A i \in Invocations :
        SawFailure(i) =>
            /\ pc[i] = "done"
            /\ queryExecutionId[i] /= NoId
            /\ Logged(ExecutionFailed(queryExecutionId[i]))
            /\ outcome[i] = [state |-> "fulfilled", value |-> Undefined]

C1_Witness ==
    \E i \in Invocations :
        /\ "CANCELLED" \in Observed(i)
        /\ "RUNNING" \in Observed(i)
        /\ pc[i] = "done"

\* C2: a remote call that fails is the invocation's last remote call (no retry, no
\* further call); its error is logged and the runner returns undefined, not a
\* rejection.
C2_TransportErrorSwallowed ==
    \A i \in Invocations :
        \A k \in DOMAIN trace[i] :
            trace[i][k].resp = "error" =>
                /\ k = Len(trace[i])
                /\ pc[i] = "done"
                /\ Logged(TransportError(trace[i][k].op))
                /\ outcome[i].state = "fulfilled"
                /\ outcome[i].value = Undefined

C2_Witness ==
    \E i \in Invocations :
        /\ Len(trace[i]) >= 4
        /\ IsFetch(Last(trace[i]))
        /\ Last(trace[i]).resp = "error"
        /\ Last(trace[i]).token /= NoToken

\* C3: after SUCCEEDED the poller has returned: no wait and no status check
\* follows.  After FAILED or CANCELLED it has raised the execution-failure error:
\* nothing follows.  After QUEUED or RUNNING comes one wait of the fixed delay and
\* then one status check.  So, when every status check is answered with a status,
\* the poller has ended exactly when a terminal status has been observed, and
\* it is still polling while every status observed is pending.
C3_Poller ==
    \A i \in Invocations :
        LET t == trace[i]
            n == Len(t)
        IN /\ \A k \in DOMAIN t :
                IsStatusCheck(t[k]) =>
                    CASE t[k].resp = "SUCCEEDED" ->
                            /\ pc[i] \in {"fetch", "done"}
                            /\ k < n => IsFetch(t[k + 1])
                      [] t[k].resp \in FailedStatuses ->
                            /\ k = n
                            /\ pc[i] = "done"
                            /\ Logged(ExecutionFailed(t[k].id))
                      [] t[k].resp \in PendingStatuses ->
                            /\ k = n => pc[i] = "sleep"
                            /\ k < n => /\ IsWait(t[k + 1])
                                        /\ t[k + 1].ms = 5000
                            /\ k + 1 = n => pc[i] = "poll"
                            /\ k + 1 < n => IsStatusCheck(t[k + 2])
                      [] OTHER -> k = n
           /\ \A k \in DOMAIN t : IsWait(t[k]) => k > 1 /\ t[k - 1].resp \in PendingStatuses
           /\ (n >= 1 /\ ~CallFailed(i)) =>
                /\ pc[i] \in {"fetch", "done"} <=> SawTerminal(i)
                /\ pc[i] \in {"poll", "sleep"} <=> ~SawTerminal(i)

C3_Witness ==
    \E i \in Invocations :
        /\ Len(trace[i]) = 6
        /\ trace[i][2].resp = "QUEUED"
        /\ IsWait(trace[i][3])
        /\ trace[i][4].resp = "RUNNING"
        /\ IsWait(trace[i][5])
        /\ trace[i][6].resp = "SUCCEEDED"
        /\ pc[i] = "fetch"

\* C10: an invocation issues one start-execution request, first; every status
\* check comes after the identifier was returned and carries it; every results
\* request comes after a status check for the same execution answered SUCCEEDED;
\* an invocation that observed FAILED or CANCELLED fetches no results page.
C10_SubmitPollPaginate ==
    \A i \in Invocations :
        LET t == trace[i]
        IN /\ \A k \in DOMAIN t : IsStart(t[k]) <=> k = 1
           /\ pc[i] \notin {"idle", "unused"} => Len(t) >= 1
           /\ \A k \in DOMAIN t :
                IsStatusCheck(t[k]) =>
                    /\ t[1].resp = "ok"
                    /\ t[k].id /= NoId
                    /\ t[k].id = queryExecutionId[i]
           /\ \A k \in DOMAIN t :
                IsFetch(t[k]) =>
                    \E j \in 1..(k - 1) :
                        /\ IsStatusCheck(t[j])
                        /\ t[j].resp = "SUCCEEDED"
                        /\ t[j].id = t[k].id
           /\ SawFailure(i) => \A k \in DOMAIN t : ~IsFetch(t[k])

C10_Witness ==
    \E i \in Invocations :
        /\ HasOutput(i)
        /\ Len(trace[i]) = 6
        /\ IsStart(trace[i][1])
        /\ trace[i][2].resp = "RUNNING"
        /\ trace[i][4].resp = "SUCCEEDED"
        /\ IsFetch(trace[i][5])
        /\ IsFetch(trace[i][6])

\* the rows of the first n pages, in page order
RECURSIVE ConcatRows(_, _)
ConcatRows(pages, n) ==
    IF n = 0 THEN <<>> ELSE ConcatRows(pages, n - 1) \o pages[n].Rows

RECURSIVE SumRows(_, _)
SumRows(pages, n) == IF n = 0 THEN 0 ELSE SumRows(pages, n - 1) + Len(pages[n].Rows)

IsPage(e) == IsFetch(e) /\ e.resp = "ok"
\* the results pages invocation i has received, in order
Fetched(i) == SelectSeq(trace[i], IsPage)
OwnPages(i) == results[queryExecutionId[i]]

\* C4: the first results request carries no token; each later one carries the
\* token of the response before it; the k-th request fetches page k, so every page
\* is fetched once; the loop ends right after the first page without a token, with
\* all pages fetched; the rows accumulated are the pages' rows concatenated in
\* fetch order, and their count is the sum of the page sizes.
C4_Pagination ==
    \A i \in Invocations :
        LET f == Fetched(i)
            n == Len(f)
        IN n >= 1 =>
            /\ f[1].token = NoToken
            /\ \A k \in 1..(n - 1) : f[k].next /= NoToken /\ f[k + 1].token = f[k].next
            /\ \A k \in 1..n : PageIndex(f[k].token) = k
            /\ n <= Len(OwnPages(i))
            /\ f[n].next = NoToken <=> n = Len(OwnPages(i))
            /\ f[n].next = NoToken => pc[i] = "done" /\ HasOutput(i)
            /\ (f[n].next /= NoToken /\ ~CallFailed(i)) => pc[i] = "fetch"
            /\ allRows[i] = ConcatRows(OwnPages(i), n)
            /\ Len(allRows[i]) = SumRows(OwnPages(i), n)

\* page 1 with 3 rows and a token, page 2 with 2 rows and none: 5 rows
C4_Witness ==
    \E i \in Invocations :
        /\ pc[i] = "done"
        /\ Len(Fetched(i)) = 2
        /\ Len(OwnPages(i)) = 2
        /\ Len(OwnPages(i)[1].Rows) = 3
        /\ Len(OwnPages(i)[2].Rows) = 2
        /\ Len(allRows[i]) = 5

Names(columns) == [c \in DOMAIN columns |-> columns[c].Name]
OutputNames(columnTypes) == [c \in DOMAIN columnTypes |-> columnTypes[c].name]

C6_HeaderDropped ==
    \A i \in Invocations :
        mapped[i] /= NotMapped =>
            LET N == Len(allRows[i]) - 1
                meta == resultSetMetadata[i]
            IN /\ N >= 0
               /\ N = SumRows(OwnPages(i), Len(OwnPages(i))) - 1
               /\ Len(mapped[i].rows) = N
               /\ mapped[i].expectedRowCount = N
               /\ \A k \in 1..N : mapped[i].rows[k] = MapRow(meta, allRows[i][k + 1])
               /\ \A k \in 1..N : mapped[i].rows[k] /= MapRow(meta, allRows[i][1])
               /\ Len(outcome[i].value.rows) = N
               /\ outcome[i].value.expectedRowCount = N

C6_Witness ==
    \E i \in Invocations :
        /\ mapped[i] /= NotMapped
        /\ Len(OwnPages(i)) = 2
        /\ Len(allRows[i]) = 4
        /\ mapped[i].expectedRowCount = 3
        /\ allRows[i][2] /= allRows[i][3]

\* C7 as stated: in the runner's output, for every row and every column, the value
\* under the column's name is the date parsed from the raw string when the
\* column's mapped type is DATE, and the raw string itself otherwise.
C7_DateIffDateColumn ==
    \A i \in Invocations :
        HasOutput(i) =>
            LET columns == OwnPages(i)[1].Meta
                data == DataRows(allRows[i])
                out == outcome[i].value
            IN \A k \in DOMAIN data :
                 \A c \in DOMAIN columns :
                    out.rows[k][columns[c].Name] =
                        IF EvidenceTypeOf(columns[c].Type) = EvDATE
                        THEN NewDate(data[k][c])
                        ELSE data[k][c]

\* C7 restricted to result sets whose column names are all different: there the
\* statement holds
C7_DateIffWhenNamesDiffer ==
    \A i \in Invocations :
        (HasOutput(i) /\ OwnPages(i)[1].Meta[1].Name /= OwnPages(i)[1].Meta[2].Name) =>
            LET columns == OwnPages(i)[1].Meta
                data == DataRows(allRows[i])
                out == outcome[i].value
            IN \A k \in DOMAIN data :
                 \A c \in DOMAIN columns :
                    out.rows[k][columns[c].Name] =
                        IF EvidenceTypeOf(columns[c].Type) = EvDATE
                        THEN NewDate(data[k][c])
                        ELSE data[k][c]

\* the table of the type mapper, written out
TableType(tag) ==
    IF tag = "boolean" THEN "boolean"
    ELSE IF tag \in {"tinyint", "smallint", "int", "integer", "bigint",
                     "double", "float", "real"} THEN "number"
    ELSE IF tag \in {"date", "timestamp"} THEN "date"
    ELSE "string"

\* C8: for every native tag, listed or not, in any spelling, the mapper returns the
\* column's name, PRECISE fidelity and the type the table gives, STRING for every
\* tag the table does not list; the type is always one of the four.
C8_TypeTable ==
    tmResult /= NotMapped =>
        /\ tmResult.name = tmColumn.Name
        /\ tmResult.typeFidelity = "precise"
        /\ tmResult.evidenceType = TableType(tmColumn.Type)
        /\ tmResult.evidenceType \in {"boolean", "number", "date", "string"}
        /\ tmColumn.Type \notin ListedTags => tmResult.evidenceType = "string"

C8_Witness ==
    /\ tmResult /= NotMapped
    /\ tmColumn.Type = "DATE"
    /\ tmResult.evidenceType = "string"

\* what an invocation returns when it runs alone on the pages of its execution
RunAlone(pages) ==
    ReifyDates(mapQueryResults([rows |-> ConcatRows(pages, Len(pages)),
                                resultSetMetadata |-> pages[1].Meta]))

\* C9: whatever the interleaving, invocations hold different execution
\* identifiers; every status check and results request of an invocation carries
\* its own identifier; its token, rows and metadata come from its own execution's
\* pages; its output is the one it returns running alone on those pages, and its
\* failure is logged with its own identifier.
C9_Independent ==
    /\ \A i, j \in Invocations :
          (i /= j /\ queryExecutionId[i] /= NoId) => queryExecutionId[i] /= queryExecutionId[j]
    /\ \A i \in Invocations :
          /\ \A k \in DOMAIN trace[i] :
                (IsStatusCheck(trace[i][k]) \/ IsFetch(trace[i][k])) =>
                    trace[i][k].id = queryExecutionId[i]
          /\ Len(Fetched(i)) >= 1 =>
                /\ allRows[i] = ConcatRows(OwnPages(i), Len(Fetched(i)))
                /\ resultSetMetadata[i] = OwnPages(i)[1].Meta
                /\ nextToken[i] = IF Len(Fetched(i)) < Len(OwnPages(i))
                                  THEN Len(Fetched(i)) + 1 ELSE NoToken
          /\ HasOutput(i) <=> (Len(Fetched(i)) >= 1 /\ Last(Fetched(i)).next = NoToken)
          /\ HasOutput(i) => outcome[i].value = RunAlone(OwnPages(i))
          /\ SawFailure(i) => Logged(ExecutionFailed(queryExecutionId[i]))
          /\ pc[i] = "done" => (HasOutput(i) \/ SawFailure(i) \/ CallFailed(i))

\* two invocations, the second to be called started first, with different result
\* sets, one of them mid-pagination when the other returns
C9_Witness ==
    \E i, j \in Invocations :
        /\ i < j
        /\ queryExecutionId[j] /= NoId
        /\ queryExecutionId[j] < queryExecutionId[i]
        /\ OwnPages(i) /= OwnPages(j)
        /\ HasOutput(i)
        /\ HasOutput(j)
        /\ outcome[i].value /= outcome[j].value

====
